---- MODULE Spec2Model ----
(***************************************************************************)
(* A model of overlord_notify.py: the items table kept by DatabaseManager, *)
(* the per-item history files kept by TranslationItem.read_file, the mail  *)
(* transport used by TranslationItem.send_notification, and the run of     *)
(* find_item over the scraped table cells.                                 *)
(***************************************************************************)
EXTENDS Integers, Sequences, FiniteSets, TLC

\* ------------------------------------------------------------------ bounds
MaxRows == 3        \* rows the items table may hold in a run of find_item
MaxObs == 2         \* table cells one run of find_item processes
MaxStoreRows == 3   \* rows, when DatabaseManager's methods are called one by one
MaxNotifyRows == 2  \* rows, when TranslationItem's methods are called one by one
MaxMail == 1        \* calls of send_notification that reach the transport
MaxDay == 1         \* CURRENT_DATE ranges over 0..MaxDay
MaxPairRows == 3    \* rows, when both variants are fed the same cells
MaxRaceRows == 3    \* rows, when two runs interleave
MaxRaceObs == 1     \* cells each of two interleaved runs processes

\* ------------------------------------------------------------- input sets
\* find_item is called with the title 'Overlord' (line 190).
Titles == {"Overlord"}
\* The volume is the text after the last '#' of a cell.  "15" and "015" are
\* different texts (and different history files) for the same number.
Volumes == {"15", "015", "16"}
\* The text after the dash of a cell.  "first stage" is the line read_file
\* seeds a new history file with.
Statuses == {"announced", "translation", "first stage"}
Items == [title : Titles, volume : Volumes, status : Statuses]
TranslationItem(t, v, s) == [title |-> t, volume |-> v, status |-> s]
Receivers == {"reader@example.org"}
\* The items a caller of single methods builds.
NotifyItems == [title : Titles, volume : {"15"}, status : {"announced", "translation"}]

\* A table cell as find_item splits it: the text after '#' and the text after
\* the dash, before strip().
RawStatuses == {" announced", "announced ", " translation", " first stage"}
Cells == [volume : Volumes, status : RawStatuses]

\* str.strip() on the texts of the model.
Strip(s) ==
    CASE s \in {" announced", "announced "} -> "announced"
      [] s = " translation" -> "translation"
      [] s = " first stage" -> "first stage"
      [] OTHER -> s

\* -------------------------------------------------------- Python equality
\* self.status == db.get_last_status(self) compares a str with whatever
\* get_last_status returns; == between values of different types is False.
PyStr(s) == [type |-> "str", val |-> s]
PyTuple(r) == [type |-> "tuple", val |-> r]
PyNone == [type |-> "NoneType", val |-> <<>>]
PyEq(a, b) == a.type = b.type /\ a.val = b.val

\* ------------------------------------------------------------ items table
\* The column `volume INTEGER`: SQLite stores a text that reads as an integer
\* as that integer, and converts the text parameter of `volume = ?` the same
\* way before comparing.  (A text that does not read as a number is kept as
\* text; the volumes of the model all read as numbers.)
IntegerAffinity(v) ==
    CASE v = "15" -> 15
      [] v = "015" -> 15
      [] v = "16" -> 16

\* One row of CREATE TABLE items (id, title, volume, status, date, is_notified).
Row(id, item, date) ==
    [id |-> id, title |-> item.title, volume |-> IntegerAffinity(item.volume),
     status |-> item.status, date |-> date, is_notified |-> FALSE]

\* WHERE title = ? AND volume = ?
Matching(d, item) ==
    {d[i] : i \in {j \in 1..Len(d) : /\ d[j].title = item.title
                                     /\ d[j].volume = IntegerAffinity(item.volume)}}

\* SELECT * ... ORDER BY id DESC LIMIT 1; results[0] if results else None
GetLastStatusAsc(d, item) ==
    LET rows == Matching(d, item)
    IN  IF rows = {} THEN PyNone
        ELSE PyTuple(CHOOSE r \in rows : \A q \in rows : q.id >= r.id)
GetLastStatus(d, item) ==
    LET rows == Matching(d, item)
    IN  IF rows = {} THEN PyNone
        ELSE PyTuple(CHOOSE r \in rows : \A q \in rows : q.id <= r.id)

\* INSERT INTO items (title, volume, status) VALUES (?, ?, ?); commit.
\* AUTOINCREMENT gives the next id; date and is_notified take their defaults.
AddNewStatusNotified(d, item, date) ==
    Append(d, [Row(Len(d) + 1, item, date) EXCEPT !.is_notified = TRUE])
AddNewStatusGuarded(d, item, date) ==
    LET last == GetLastStatus(d, item)
    IN  IF last.type = "tuple" /\ last.val.status = item.status THEN d
        ELSE Append(d, Row(Len(d) + 1, item, date))
AddNewStatus(d, item, date) == Append(d, Row(Len(d) + 1, item, date))

\* UPDATE items (is_notified) VALUES (TRUE) WHERE ...: not an UPDATE statement
\* of SQLite; execute raises sqlite3.OperationalError and no row changes.
UpdateNotificationStatus(d, item) == [raised |-> TRUE, db |-> d]

\* items_with_unsent_notification: the body is `...`; the call returns None.
ItemsWithUnsentNotification(d) == PyNone

\* TranslationItem.check: the comparison and, when it is False, the insert.
CheckChanged(d, item) == ~PyEq(PyStr(item.status), GetLastStatus(d, item))
CheckDb(d, item, date) ==
    IF CheckChanged(d, item) THEN AddNewStatus(d, item, date) ELSE d

\* ---------------------------------------------------------- history files
\* f"{title}_{volume}.txt": one file per title and volume text.
Path(item) == <<item.title, item.volume>>
Paths == Titles \X Volumes
\* A file is the sequence of its lines; <<>> stands for "no such file".
NoFile == <<>>

\* read_file: an existing file is opened 'a+'; a new one is created holding
\* the single line "first stage".
ReadFile(f) == IF f = NoFile THEN <<"first stage">> ELSE f

\* check_for_update: compare with the stripped last line; append when it
\* differs.
CheckForUpdateChanged(f, item) ==
    LET lines == ReadFile(f)
    IN  item.status # Strip(lines[Len(lines)])
CheckForUpdateFile(f, item) ==
    IF CheckForUpdateChanged(f, item) THEN Append(ReadFile(f), item.status)
    ELSE ReadFile(f)

\* --------------------------------------------------------- mail transport
\* What one call of send_notification meets: credentials.json unreadable
\* (read_credentials, before the try), SMTP_SSL(...) raising, login raising
\* SMTPAuthenticationError, send_message raising, quit raising after the
\* message was accepted, or all four calls succeeding.
SendOutcomes ==
    {"no_credentials", "connect_error", "auth_error", "send_error", "quit_error", "sent"}
TransportOutcomes == SendOutcomes \ {"no_credentials"}
TransportFailures == TransportOutcomes \ {"sent"}

\* What send_notification returns: True after quit(), False from either
\* except clause; an exception of read_credentials is not caught.
Returned(value) == [raised |-> FALSE, value |-> value]
Raised == [raised |-> TRUE, value |-> <<>>]
SendResultAuthOnly(outcome) ==
    CASE outcome = "sent" -> Returned(TRUE)
      [] outcome = "auth_error" -> Returned(FALSE)
      [] OTHER -> Raised
SendResult(outcome) ==
    CASE outcome = "sent" -> Returned(TRUE)
      [] outcome = "no_credentials" -> Raised
      [] OTHER -> Returned(FALSE)

\* ------------------------------------------------------------------ state
VARIABLES
    db,         \* the items table, rows in insertion order
    files,      \* the history files, by path
    mail,       \* the send_notification calls that reached the transport:
                \* item, receiver and what the transport did
    today,      \* CURRENT_DATE
    pc,         \* where each run of find_item stands
    remaining,  \* cells each run has still to process
    cur,        \* the item each run is checking
    seen,       \* what each run's get_last_status returned, between the
                \* read and the insert of check
    lastOp      \* the last call made and what it returned

vars == <<db, files, mail, today, pc, remaining, cur, seen, lastOp>>

\* A call, the item it was made for, and how it ended: ret is
\* Returned(value) or Raised.
NoOp == [op |-> "none", item |-> <<>>, ret |-> Returned(<<>>)]
Call(op, item, ret) == [op |-> op, item |-> item, ret |-> ret]

Runs == {1, 2}

InitStore ==
    /\ db = <<>>
    /\ files = [p \in Paths |-> NoFile]
    /\ mail = <<>>
    /\ today = 0
    /\ lastOp = NoOp

Init ==
    /\ InitStore
    /\ pc = [r \in Runs |-> "idle"]
    /\ remaining = [r \in Runs |-> 0]
    /\ cur = [r \in Runs |-> PyNone]
    /\ seen = [r \in Runs |-> PyNone]

\* ------------------------------------------------- find_item, run by run
\* requests.get and the list comprehension: the cells holding the title.
StartRun ==
    /\ pc[1] = "idle"
    /\ \E n \in 0..MaxObs :
          remaining' = [remaining EXCEPT ![1] = n]
    /\ pc' = [pc EXCEPT ![1] = "loop"]
    /\ UNCHANGED <<db, files, mail, today, cur, seen, lastOp>>

\* One turn of the for loop: split and strip the cell, build the item, call
\* item.check().  Nothing else is called (the notification is commented out).
LoopStep ==
    /\ pc[1] = "loop"
    /\ remaining[1] > 0
    /\ Len(db) < MaxRows
    /\ \E c \in Cells :
          LET item == TranslationItem("Overlord", c.volume, Strip(c.status))
          IN  /\ db' = CheckDb(db, item, today)
              /\ lastOp' = Call("check", item, Returned(CheckChanged(db, item)))
    /\ remaining' = [remaining EXCEPT ![1] = remaining[1] - 1]
    /\ UNCHANGED <<files, mail, today, pc, cur, seen>>

\* A cell holding the title whose text does not split into two parts at the
\* dash: the unpacking raises ValueError, nothing catches it, the script ends.
LoopRaise ==
    /\ pc[1] = "loop"
    /\ remaining[1] > 0
    /\ pc' = [pc EXCEPT ![1] = "idle"]
    /\ remaining' = [remaining EXCEPT ![1] = 0]
    /\ lastOp' = Call("find_item", <<>>, Raised)
    /\ UNCHANGED <<db, files, mail, today, cur, seen>>

\* The loop is over and the script ends; the scheduler starts the next run.
EndRun ==
    /\ pc[1] = "loop"
    /\ remaining[1] = 0
    /\ pc' = [pc EXCEPT ![1] = "idle"]
    /\ UNCHANGED <<db, files, mail, today, remaining, cur, seen, lastOp>>

\* Midnight passes: CURRENT_DATE, the default of the date column, moves on.
TickDay ==
    /\ today < MaxDay
    /\ today' = today + 1
    /\ UNCHANGED <<db, files, mail, pc, remaining, cur, seen, lastOp>>

Next == StartRun \/ LoopStep \/ LoopRaise \/ EndRun \/ TickDay

Spec == Init /\ [][Next]_vars

\* ------------------------------------ DatabaseManager, method by method
run == <<pc, remaining, cur, seen>>

OpGetLastStatus ==
    /\ \E item \in Items :
          lastOp' = Call("get_last_status", item, Returned(GetLastStatus(db, item)))
    /\ UNCHANGED <<db, files, mail, today, run>>

OpAddNewStatus ==
    /\ Len(db) < MaxStoreRows
    /\ \E item \in Items :
          /\ db' = AddNewStatus(db, item, today)
          /\ lastOp' = Call("add_new_status", item, Returned(PyNone))
    /\ UNCHANGED <<files, mail, today, run>>

OpUpdateNotificationStatus ==
    /\ \E item \in NotifyItems :
          LET r == UpdateNotificationStatus(db, item)
          IN  /\ db' = r.db
              /\ lastOp' = Call("update_notification_status", item,
                                IF r.raised THEN Raised ELSE Returned(PyNone))
    /\ UNCHANGED <<files, mail, today, run>>

OpItemsWithUnsentNotification ==
    /\ lastOp' = Call("items_with_unsent_notification", <<>>,
                      Returned(ItemsWithUnsentNotification(db)))
    /\ UNCHANGED <<db, files, mail, today, run>>

NextStore ==
    \/ OpGetLastStatus
    \/ OpAddNewStatus
    \/ OpUpdateNotificationStatus
    \/ OpItemsWithUnsentNotification

SpecStore == Init /\ [][NextStore]_vars

\* ------------------------------------- TranslationItem, method by method
OpCheck ==
    /\ Len(db) < MaxNotifyRows
    /\ \E item \in NotifyItems :
          /\ db' = CheckDb(db, item, today)
          /\ lastOp' = Call("check", item, Returned(CheckChanged(db, item)))
    /\ UNCHANGED <<files, mail, today, run>>

\* send_notification: the store is not touched on any path.
OpSendNotification ==
    /\ Len(mail) < MaxMail
    /\ \E item \in NotifyItems, to \in Receivers, outcome \in SendOutcomes :
          /\ mail' = IF outcome \in TransportOutcomes
                        THEN Append(mail, [item |-> item, to |-> to, outcome |-> outcome])
                        ELSE mail
          /\ lastOp' = Call("send_notification", item, SendResult(outcome))
    /\ UNCHANGED <<db, files, today, run>>

NextNotify ==
    \/ OpCheck
    \/ OpSendNotification
    \/ OpUpdateNotificationStatus
    \/ TickDay

SpecNotify == Init /\ [][NextNotify]_vars

\* --------------------------- both variants, fed the same cells side by side
Observe ==
    /\ Len(db) < MaxPairRows
    /\ \E c \in Cells :
          LET item == TranslationItem("Overlord", c.volume, Strip(c.status))
          IN  /\ db' = CheckDb(db, item, today)
              /\ files' = [files EXCEPT
                              ![Path(item)] = CheckForUpdateFile(files[Path(item)], item)]
              /\ lastOp' = Call("observe", item,
                                Returned([check |-> CheckChanged(db, item),
                                          check_for_update |->
                                              CheckForUpdateChanged(files[Path(item)], item)]))
    /\ UNCHANGED <<mail, today, run>>

NextVariants == Observe

SpecVariants == Init /\ [][NextVariants]_vars

\* ------------------------------- two runs of find_item on the same store
\* Between get_last_status and add_new_status of one check, the other run
\* may take steps: DatabaseManager opens no transaction around the two.
RaceCells == [volume : {"15"}, status : {" announced", " translation"}]

RaceStart(r) ==
    /\ pc[r] = "idle"
    /\ \E n \in 0..MaxRaceObs :
          remaining' = [remaining EXCEPT ![r] = n]
    /\ pc' = [pc EXCEPT ![r] = "loop"]
    /\ UNCHANGED <<db, files, mail, today, cur, seen, lastOp>>

\* check, up to the return of db.get_last_status(self).
RaceRead(r) ==
    /\ pc[r] = "loop"
    /\ remaining[r] > 0
    /\ \E c \in RaceCells :
          LET item == TranslationItem("Overlord", c.volume, Strip(c.status))
          IN  /\ cur' = [cur EXCEPT ![r] = item]
              /\ seen' = [seen EXCEPT ![r] = GetLastStatus(db, item)]
    /\ pc' = [pc EXCEPT ![r] = "read"]
    /\ UNCHANGED <<db, files, mail, today, remaining, lastOp>>

\* check, from the comparison on: the insert when it is False.
RaceInsert(r) ==
    /\ pc[r] = "read"
    /\ Len(db) < MaxRaceRows
    /\ LET changed == ~PyEq(PyStr(cur[r].status), seen[r])
       IN  /\ db' = IF changed THEN AddNewStatus(db, cur[r], today) ELSE db
           /\ lastOp' = Call("check", cur[r], Returned(changed))
    /\ pc' = [pc EXCEPT ![r] = "loop"]
    /\ remaining' = [remaining EXCEPT ![r] = remaining[r] - 1]
    /\ UNCHANGED <<files, mail, today, cur, seen>>

RaceEnd(r) ==
    /\ pc[r] = "loop"
    /\ remaining[r] = 0
    /\ pc' = [pc EXCEPT ![r] = "idle"]
    /\ UNCHANGED <<db, files, mail, today, remaining, cur, seen, lastOp>>

NextConcurrent ==
    \E r \in Runs : RaceStart(r) \/ RaceRead(r) \/ RaceInsert(r) \/ RaceEnd(r)

SpecConcurrent == Init /\ [][NextConcurrent]_vars

\* =================================================================== claims
\* The rows of one (title, volume) as the table keys them, oldest first.
KeyIndexes(d, t, v) == {j \in 1..Len(d) : d[j].title = t /\ d[j].volume = v}
\* Row r is the record of item: same title, volume and status.
Describes(item, r) ==
    /\ r.title = item.title
    /\ r.volume = IntegerAffinity(item.volume)
    /\ r.status = item.status
\* The status check ought to compare with: that of the key's newest row.
StatusDiffers(d, item) ==
    LET last == GetLastStatus(d, item)
    IN  last = PyNone \/ last.val.status # item.status
\* A turn of find_item's loop was taken.
LoopTurn == pc[1] = "loop" /\ pc'[1] = "loop" /\ remaining'[1] < remaining[1]
\* item.check() was called in full (method by method).
CheckCalled == lastOp'.op = "check" /\ today' = today /\ mail' = mail

\* C1: a record is appended only when the observed status differs from the
\* status of the key's newest record, so no key ever holds two consecutive
\* records with the same status.
C1_OneRecordPerTransition ==
    \A i, j \in 1..Len(db) :
        ( /\ i < j
          /\ db[i].title = db[j].title
          /\ db[i].volume = db[j].volume
          /\ \A k \in (i + 1)..(j - 1) :
                ~(db[k].title = db[i].title /\ db[k].volume = db[i].volume) )
        => db[i].status # db[j].status

\* C2: a check that directly follows a check of the identical item reports
\* no change and leaves the table as it is.
C2_SecondCheckIsNoChange ==
    [][ ( /\ lastOp.op = "check"
          /\ CheckCalled
          /\ lastOp'.item = lastOp.item )
        => (lastOp'.ret = Returned(FALSE) /\ db' = db) ]_vars

\* C3: a run starts with the reconciliation sweep: every record that is
\* unnotified when the run starts gets a delivery attempt before the run
\* turns to its observations.
C3_RunStartsWithSweep ==
    [][ (pc[1] = "idle" /\ pc'[1] = "loop")
        => \A i \in 1..Len(db) :
              ~db[i].is_notified
              => \E k \in (Len(mail) + 1)..Len(mail') :
                    Describes(mail'[k].item, db[i]) ]_vars

\* C4: once send_notification has reported success for an item, the item's
\* record is marked notified.
C4_SentMarksNotified ==
    (lastOp.op = "send_notification" /\ lastOp.ret = Returned(TRUE))
    => \A i \in 1..Len(db) :
          Describes(lastOp.item, db[i]) => db[i].is_notified

\* Every notified record has a successful send for it in the mail log.
C5_NotifiedOnlyAfterSent ==
    \A i \in 1..Len(db) :
        db[i].is_notified
        => \E k \in 1..Len(mail) :
              mail[k].outcome = "sent" /\ Describes(mail[k].item, db[i])
\* A step keeps every record, changes nothing of one but is_notified from
\* false to true, and creates records unnotified.
C5_RecordsImmutable ==
    /\ Len(db') >= Len(db)
    /\ \A i \in 1..Len(db) :
          \/ db'[i] = db[i]
          \/ (~db[i].is_notified /\ db'[i] = [db[i] EXCEPT !.is_notified = TRUE])
    /\ \A i \in (Len(db) + 1)..Len(db') : ~db'[i].is_notified
\* C5: a record is notified only if a send for it succeeded before; the flag
\* is false on creation and only ever goes from false to true; id, title,
\* volume, status and date of an existing record never change.
C5_NotifiedFlag == []C5_NotifiedOnlyAfterSent /\ [][C5_RecordsImmutable]_vars
\* C5 witness: a record created on an earlier day, a successful send for it,
\* and update_notification_status just called for it.
C5_Witness ==
    /\ lastOp.op = "update_notification_status"
    /\ \E i \in 1..Len(db) :
          /\ Describes(lastOp.item, db[i])
          /\ db[i].date < today
          /\ ~db[i].is_notified
          /\ \E k \in 1..Len(mail) :
                mail[k].outcome = "sent" /\ mail[k].item = lastOp.item

\* C6: in a turn of find_item's loop, an observation that creates a record
\* gets one delivery attempt, and an observation whose status is unchanged
\* gets no record and no delivery attempt.
C6_AppendThenDeliver ==
    [][ LoopTurn
        => /\ (Len(db') > Len(db))
                => /\ Len(mail') = Len(mail) + 1
                   /\ mail'[Len(mail')].item = lastOp'.item
           /\ ~StatusDiffers(db, lastOp'.item)
                => (db' = db /\ mail' = mail) ]_vars

\* C7: a send_notification that meets a transport failure (connect, login,
\* send or quit) returns False instead of raising, changes no record, and
\* leaves every run where it stands.
C7_FailureIsReturned ==
    [][ ( /\ lastOp'.op = "send_notification"
          /\ Len(mail') = Len(mail) + 1
          /\ mail'[Len(mail')].outcome \in TransportFailures )
        => /\ lastOp'.ret = Returned(FALSE)
           /\ db' = db
           /\ UNCHANGED <<pc, remaining>> ]_vars
\* C7 witness: a failed send for an item whose record is in the table, still
\* unnotified.
C7_Witness ==
    /\ lastOp.op = "send_notification"
    /\ lastOp.ret = Returned(FALSE)
    /\ Len(mail) > 0
    /\ mail[Len(mail)].outcome \in TransportFailures \ {"auth_error"}
    /\ mail[Len(mail)].item = lastOp.item
    /\ \E i \in 1..Len(db) : Describes(lastOp.item, db[i]) /\ ~db[i].is_notified

\* The statuses the table holds for the key of a path, oldest first.
DbHistory(d, p) ==
    LET keep(r) == r.title = p[1] /\ r.volume = IntegerAffinity(p[2])
        rows == SelectSeq(d, keep)
    IN  [i \in 1..Len(rows) |-> rows[i].status]

\* C8: fed the same observations from empty stores, check and
\* check_for_update decide alike at every step and hold the same history.
C8_VariantsAgree ==
    /\ lastOp.op = "observe"
       => lastOp.ret.value.check = lastOp.ret.value.check_for_update
    /\ \A p \in Paths : files[p] # NoFile => files[p] = DbHistory(db, p)

\* Run r read the key's newest record, and another record with the status r
\* observed has been inserted for the key since.
Overtaken(r) ==
    /\ pc[r] = "read"
    /\ GetLastStatus(db, cur[r]) # seen[r]
    /\ GetLastStatus(db, cur[r]).val.status = cur[r].status

\* C9: a run whose read has been overtaken by the other run's insert of the
\* same status still inserts: the table then holds two records for the one
\* transition.
C9_OvertakenStillInserts ==
    [][ \A r \in Runs :
          (Overtaken(r) /\ pc'[r] = "loop")
          => db' = Append(db, Row(Len(db) + 1, cur[r], today)) ]_vars
\* C9 witness: both runs read the same newest record (or none) for the same
\* item, both inserted, and the table's two newest rows are the two records.
C9_Witness ==
    /\ pc[1] = "loop" /\ pc[2] = "loop"
    /\ cur[1] # PyNone /\ cur[1] = cur[2]
    /\ seen[1] = seen[2]
    /\ Len(db) >= 2
    /\ Describes(cur[1], db[Len(db)]) /\ Describes(cur[1], db[Len(db) - 1])
    /\ seen[1].type = "tuple" => seen[1].val.id < Len(db) - 1

\* C10 as claimed: the key of a record is the exact (title, volume) of the
\* item it was inserted for.  An insert makes the new row the result of
\* get_last_status for that exact key and leaves the result for every other
\* (title, volume) as it was; get_last_status itself changes nothing.
C10_ExactKey ==
    [][ /\ (lastOp'.op = "add_new_status" /\ Len(db') > Len(db))
            => \A item \in Items :
                  IF Path(item) = Path(lastOp'.item)
                  THEN GetLastStatus(db', item) = PyTuple(db'[Len(db')])
                  ELSE GetLastStatus(db', item) = GetLastStatus(db, item)
        /\ lastOp'.op = "get_last_status" => db' = db ]_vars

\* For every item, get_last_status gives the last inserted row among those
\* of the item's title and stored volume, which has the highest id of them.
C10_LatestOfKey ==
    \A item \in Items :
        LET idx == KeyIndexes(db, item.title, IntegerAffinity(item.volume))
            got == GetLastStatus(db, item)
        IN  IF idx = {} THEN got = PyNone
            ELSE /\ got.type = "tuple"
                 /\ \E i \in idx :
                       /\ got.val = db[i]
                       /\ \A j \in idx : j <= i /\ db[j].id <= db[i].id
\* A call of get_last_status returns that row and leaves the table alone.
C10_ReadOnly ==
    lastOp'.op = "get_last_status"
    => (db' = db /\ lastOp'.ret = Returned(GetLastStatus(db, lastOp'.item)))
\* C10 amended: get_last_status returns the most recently inserted row among
\* those with the item's title and the item's volume as the INTEGER column
\* holds it ("15" and "015" are one key), which is the one with the highest
\* id among them, or None when there is none; rows of other stored keys never
\* count, and the call leaves the table unchanged.
C10_GetLastStatus == []C10_LatestOfKey /\ [][C10_ReadOnly]_vars
\* C10 witness: get_last_status just returned the second of two rows of its
\* key while a row of another key holds a higher id.
C10_Witness ==
    /\ lastOp.op = "get_last_status"
    /\ lastOp.ret.value.type = "tuple"
    /\ \E i, j \in 1..Len(db) :
          /\ i < j /\ j < Len(db)
          /\ db[j] = lastOp.ret.value.val
          /\ db[i].title = db[j].title /\ db[i].volume = db[j].volume
          /\ db[Len(db)].volume # db[j].volume

====
